---- MODULE Spec2Model ----
(***************************************************************************)
(* mini-ledger: the ledger grammar (src/parser.rs) and the lazy item       *)
(* driver LedgerParser (src/parser/mod.rs).                                *)
(*                                                                         *)
(* Text is a sequence of one-character strings.  A recognizer takes the    *)
(* input slice and returns a record                                        *)
(*     [ok, rest, val, err]                                                *)
(* which is nom's IResult: Ok((rest, val)) when ok, Err(Error(kind))       *)
(* otherwise (err is the nom ErrorKind).  Option<T> is a sequence of       *)
(* length 0 (None) or 1 (Some).                                            *)
(***************************************************************************)
EXTENDS Integers, Sequences, FiniteSets, TLC

VARIABLES
    input,      \* the buffer handed to LedgerParser::new / to a recognizer
    s,          \* LedgerParser.s, the remaining buffer
    outcome,    \* what the last call of next did: init, None, Some, panic
    items,      \* variants of the items next has returned so far
    calls,      \* number of calls of next so far
    op,         \* the recognizer that was applied to input ("init": none yet)
    ret         \* the IResult that recognizer returned

vars == <<input, s, outcome, items, calls, op, ret>>

(***************************************************************************)
(* Bounds of the model.                                                    *)
(***************************************************************************)
MaxPieces == 3          \* pieces the driver's buffer is built from
MaxCalls == 5           \* calls of next that are followed
MaxPostingLines == 3    \* lines after the header of a transaction input
MaxLen == 4             \* characters after the indentation of a posting input
MaxDecimalLen == 5      \* characters of a decimal input
MaxTailLen == 5         \* characters after the date of a header input

(***************************************************************************)
(* Characters.                                                             *)
(***************************************************************************)
SP == " "
TAB == "\t"
LF == "\n"
CR == "\r"
FF == "\f"

Digits == <<"0", "1", "2", "3", "4", "5", "6", "7", "8", "9">>

is_ascii_digit(c) == \E k \in 1..10 : Digits[k] = c

DigitVal(c) == (CHOOSE k \in 1..10 : Digits[k] = c) - 1

\* nom's space0/space1 accept ' ' and '\t'
is_space(c) == c \in {SP, TAB}

is_ascii_whitespace(c) == c \in {SP, TAB, LF, FF, CR}

\* char::is_whitespace, on the characters of the model's alphabet
is_whitespace(c) == c \in {SP, TAB, LF, FF, CR}

UnitPunct == {".", ",", ";", ":", "?", "!", "-", "+", "*", "/", "^", "&",
              "|", "=", "<", ">", "[", "]", "(", ")", "{", "}", "@"}

is_unit_char(c) == ~is_whitespace(c) /\ ~is_ascii_digit(c) /\ c \notin UnitPunct

(***************************************************************************)
(* Slices and results.                                                     *)
(***************************************************************************)
Take(i, k) == SubSeq(i, 1, k)

Drop(i, k) == SubSeq(i, k + 1, Len(i))

None == <<>>

Some(v) == <<v>>

Ok(rest, val) == [ok |-> TRUE, rest |-> rest, val |-> val, err |-> "Ok"]

Err(kind) == [ok |-> FALSE, rest |-> <<>>, val |-> <<>>, err |-> kind]

\* The element of a one-element set.  The({e(x) : x \in {v}}) is
\* "let x = v; e(x)": v is evaluated once and x is its value.
The(S) == CHOOSE r \in S : TRUE

\* the character predicates the grammar hands to take_while/take_while1
\* and the ones behind digit1 and space0/space1
Satisfies(c, class) ==
    CASE class = "ascii_digit"          -> is_ascii_digit(c)
      [] class = "space"                -> is_space(c)
      [] class = "unit_char"            -> is_unit_char(c)
      [] class = "not_ascii_whitespace" -> ~is_ascii_whitespace(c)
      [] class = "not_newline"          -> c # LF
      [] class = "description"          -> c # ";" /\ c # LF

\* length of the longest prefix of i whose characters are all of the class
SpanLen(i, class) ==
    CHOOSE k \in 0..Len(i) :
        /\ \A j \in 1..k : Satisfies(i[j], class)
        /\ (k = Len(i) \/ ~Satisfies(i[k + 1], class))

(***************************************************************************)
(* nom primitives used by the grammar.                                     *)
(***************************************************************************)
digit1(i) ==
    The({IF k = 0 THEN Err("Digit") ELSE Ok(Drop(i, k), Take(i, k))
         : k \in {SpanLen(i, "ascii_digit")}})

space0(i) ==
    The({Ok(Drop(i, k), Take(i, k)) : k \in {SpanLen(i, "space")}})

space1(i) ==
    The({IF k = 0 THEN Err("Space") ELSE Ok(Drop(i, k), Take(i, k))
         : k \in {SpanLen(i, "space")}})

char(c, i) ==
    IF i # <<>> /\ Head(i) = c THEN Ok(Tail(i), c) ELSE Err("Char")

tag(t, i) ==
    IF Len(i) >= Len(t) /\ Take(i, Len(t)) = t
    THEN Ok(Drop(i, Len(t)), t)
    ELSE Err("Tag")

one_of(set, i) ==
    IF i # <<>> /\ Head(i) \in set THEN Ok(Tail(i), Head(i)) ELSE Err("OneOf")

\* line_ending: "\n" or "\r\n"
line_ending(i) ==
    IF i # <<>> /\ Head(i) = LF THEN Ok(Tail(i), <<LF>>)
    ELSE IF Len(i) >= 2 /\ i[1] = CR /\ i[2] = LF THEN Ok(Drop(i, 2), <<CR, LF>>)
    ELSE Err("CrLf")

\* take_until(c): the text before the first c; fails when there is none
take_until(c, i) ==
    IF \E k \in 1..Len(i) : i[k] = c
    THEN The({Ok(Drop(i, k - 1), Take(i, k - 1))
              : k \in {n \in 1..Len(i) :
                          i[n] = c /\ \A j \in 1..(n - 1) : i[j] # c}})
    ELSE Err("TakeUntil")

\* opt(p) applied to p's result on i: Error becomes Ok(None) at i
opt(res, i) ==
    The({IF r.ok THEN Ok(r.rest, Some(r.val)) ELSE Ok(i, None) : r \in {res}})

\* recognize(p) applied to p's result on i: the slice of i that p consumed
recognize(res, i) ==
    The({IF ~r.ok THEN r ELSE Ok(r.rest, Take(i, Len(i) - Len(r.rest)))
         : r \in {res}})

(***************************************************************************)
(* Dates.                                                                  *)
(***************************************************************************)
RECURSIVE ParseInt(_)
\* str::parse for a run of ASCII digits
ParseInt(ds) ==
    IF ds = <<>> THEN 0
    ELSE ParseInt(Take(ds, Len(ds) - 1)) * 10 + DigitVal(ds[Len(ds)])

IsLeapYear(y) == (y % 4 = 0 /\ y % 100 # 0) \/ y % 400 = 0

DaysInMonth(y, m) ==
    IF m = 2 THEN (IF IsLeapYear(y) THEN 29 ELSE 28)
    ELSE IF m \in {4, 6, 9, 11} THEN 30
    ELSE 31

\* NaiveDate::from_ymd_opt
from_ymd_opt(y, m, d) ==
    IF m \in 1..12 /\ d >= 1 /\ d <= DaysInMonth(y, m)
    THEN Some([year |-> y, month |-> m, day |-> d])
    ELSE None

\* RawDate::into_naive_date: Result<NaiveDate, ParseError>.  The digit runs
\* of the model are short, so the i32/u32 parses never overflow.
into_naive_date(t) ==
    The({IF d # None
         THEN [ok |-> TRUE, val |-> d[1], err |-> "Ok"]
         ELSE [ok |-> FALSE, val |-> <<>>, err |-> "DateOutOfRange"]
         : d \in {from_ymd_opt(ParseInt(t[1]), ParseInt(t[2]), ParseInt(t[3]))}})

\* tuple((digit1, char(sep), digit1, char(sep), digit1)) mapped to (y, m, d)
date_sep(sep, i) ==
    The({IF ~y.ok THEN y ELSE
    The({IF ~a.ok THEN a ELSE
    The({IF ~m.ok THEN m ELSE
    The({IF ~b.ok THEN b ELSE
    The({IF ~d.ok THEN d ELSE
         Ok(d.rest, <<y.val, m.val, d.val>>)
    : d \in {digit1(b.rest)}})
    : b \in {char(sep, m.rest)}})
    : m \in {digit1(a.rest)}})
    : a \in {char(sep, y.rest)}})
    : y \in {digit1(i)}})

\* Parses a date separated with slashes like `2021/09/07`.
date_slash(i) == date_sep("/", i)

\* Parses a date separated with hyphens like `2021-09-07`.
date_dash(i) == date_sep("-", i)

\* alt((date_slash, date_dash)): the first that succeeds, else the error of
\* the last alternative
alt_date(i) ==
    The({IF a.ok THEN a ELSE date_dash(i) : a \in {date_slash(i)}})

\* map_res(alt(..), |t| RawDate::from_triple(t).into_naive_date()): map_res
\* drops the closure's error value and fails with ErrorKind::MapRes
date(i) ==
    The({IF ~t.ok THEN t ELSE
    The({IF d.ok THEN Ok(t.rest, d.val) ELSE Err("MapRes")
    : d \in {into_naive_date(t.val)}})
    : t \in {alt_date(i)}})

(***************************************************************************)
(* Status, code, comment, header.                                          *)
(***************************************************************************)
status(i) ==
    The({IF ~c.ok THEN c
         ELSE Ok(c.rest, IF c.val = "*" THEN "Cleared" ELSE "Pending")
         : c \in {one_of({"!", "*"}, i)}})

code(i) ==
    The({IF ~a.ok THEN a ELSE
    The({IF ~c.ok THEN c ELSE
    The({IF ~b.ok THEN b ELSE
         Ok(b.rest, c.val)
    : b \in {char(")", c.rest)}})
    : c \in {take_until(")", a.rest)}})
    : a \in {char("(", i)}})

comment(i) ==
    The({IF ~a.ok THEN a ELSE
    The({
    The({Ok(Drop(b.rest, k), Take(b.rest, k))
    : k \in {SpanLen(b.rest, "not_newline")}})
    : b \in {space0(a.rest)}})
    : a \in {char(";", i)}})

\* preceded(char('='), date)
preceded_eq_date(i) ==
    The({IF ~a.ok THEN a ELSE date(a.rest) : a \in {char("=", i)}})

\* preceded(space1, status)
preceded_space1_status(i) ==
    The({IF ~a.ok THEN a ELSE status(a.rest) : a \in {space1(i)}})

\* preceded(space1, code)
preceded_space1_code(i) ==
    The({IF ~a.ok THEN a ELSE code(a.rest) : a \in {space1(i)}})

\* take_while(|c| c != ';' && c != '\n')
description(i) ==
    The({Ok(Drop(i, k), Take(i, k)) : k \in {SpanLen(i, "description")}})

transaction_header(i) ==
    The({IF ~d.ok THEN d ELSE
    The({
    The({
    The({
    The({IF ~sp.ok THEN sp ELSE
    The({
    The({
    The({Ok(nl.rest,
            [date        |-> d.val,
             edate       |-> e.val,
             status      |-> IF st.val = None THEN "Uncleared" ELSE st.val[1],
             code        |-> co.val,
             description |-> de.val,
             comment     |-> cm.val])
    : nl \in {opt(char(LF, cm.rest), cm.rest)}})
    : cm \in {opt(comment(de.rest), de.rest)}})
    : de \in {description(sp.rest)}})
    : sp \in {space1(co.rest)}})
    : co \in {opt(preceded_space1_code(st.rest), st.rest)}})
    : st \in {opt(preceded_space1_status(e.rest), e.rest)}})
    : e \in {opt(preceded_eq_date(d.rest), d.rest)}})
    : d \in {date(i)}})

(***************************************************************************)
(* Decimals, units, amounts.                                               *)
(***************************************************************************)
RECURSIVE many0_count_digit1(_)
\* many0_count(digit1): counts repetitions until digit1 fails; a repetition
\* that consumes nothing is an error
many0_count_digit1(i) ==
    The({IF ~r.ok THEN Ok(i, 0)
         ELSE IF Len(r.rest) = Len(i) THEN Err("Many0Count")
         ELSE The({IF ~n.ok THEN n ELSE Ok(n.rest, n.val + 1)
                   : n \in {many0_count_digit1(r.rest)}})
         : r \in {digit1(i)}})

\* tuple((char('.'), digit1))
dot_digit1(i) ==
    The({IF ~a.ok THEN a ELSE digit1(a.rest) : a \in {char(".", i)}})

\* tuple((digit1, many0_count(digit1), opt(tuple((char('.'), digit1)))))
unsigned_decimal_parts(i) ==
    The({IF ~d.ok THEN d ELSE
    The({IF ~n.ok THEN n ELSE
         opt(dot_digit1(n.rest), n.rest)
    : n \in {many0_count_digit1(d.rest)}})
    : d \in {digit1(i)}})

\* Parses a decimal value without sign
unsigned_decimal(i) == recognize(unsigned_decimal_parts(i), i)

\* tuple((opt(one_of("+-")), unsigned_decimal))
decimal_parts(i) ==
    The({unsigned_decimal(sg.rest) : sg \in {opt(one_of({"+", "-"}, i), i)}})

\* Parses a decimal value
decimal(i) == recognize(decimal_parts(i), i)

RECURSIVE Normalize(_, _)
\* a decimal as mantissa m and scale e with no trailing fractional zero, so
\* that equal values are equal records (Decimal's PartialEq is numeric)
Normalize(m, e) ==
    IF e > 0 /\ m % 10 = 0 THEN Normalize(m \div 10, e - 1)
    ELSE [m |-> m, e |-> e]

\* str::parse::<Decimal> on the text decimal() recognizes
parse_decimal(price) ==
    LET neg  == price # <<>> /\ Head(price) = "-"
        body == IF price # <<>> /\ Head(price) \in {"+", "-"}
                THEN Tail(price) ELSE price
    IN  The({
        The({[m |-> IF neg THEN 0 - mag.m ELSE mag.m, e |-> mag.e]
        : mag \in {Normalize(ParseInt(Take(body, k) \o Drop(body, k + 1)),
                             IF k < Len(body) THEN Len(body) - k - 1 ELSE 0)}})
        : k \in {SpanLen(body, "ascii_digit")}})

\* Amount::from_str
Amount_from_str(price, u) == [price |-> parse_decimal(price), unit |-> u]

\* Parses a commodity unit
unit(i) ==
    The({IF k = 0 THEN Err("TakeWhile1") ELSE Ok(Drop(i, k), Take(i, k))
         : k \in {SpanLen(i, "unit_char")}})

\* preceded(space1, unit)
preceded_space1_unit(i) ==
    The({IF ~a.ok THEN a ELSE unit(a.rest) : a \in {space1(i)}})

\* Parses amount with arbitrary unit like `1000 JPY`.
amount_unit(i) ==
    The({IF ~d.ok THEN d ELSE
    The({Ok(u.rest,
            Amount_from_str(d.val, IF u.val = None THEN <<>> ELSE u.val[1]))
    : u \in {opt(preceded_space1_unit(d.rest), d.rest)}})
    : d \in {decimal(i)}})

assign_amount(i) ==
    The({IF ~a.ok THEN a ELSE
    The({amount_unit(sp.rest)
    : sp \in {space0(a.rest)}})
    : a \in {char("=", i)}})

cost(i) ==
    The({IF ~a.ok THEN a ELSE
    The({amount_unit(sp.rest)
    : sp \in {space0(a.rest)}})
    : a \in {char("@", i)}})

(***************************************************************************)
(* Postings and transactions.                                              *)
(***************************************************************************)
\* Parses an account name
account(i) ==
    The({IF k = 0 THEN Err("TakeWhile1") ELSE Ok(Drop(i, k), Take(i, k))
         : k \in {SpanLen(i, "not_ascii_whitespace")}})

\* alt((tag(" "), tag("\t"))): one space taken for an indentation
alt_indent_one_space(i) ==
    The({IF a.ok THEN a ELSE tag(<<TAB>>, i) : a \in {tag(<<SP>>, i)}})

\* alt((tag("  "), tag("\t")))
alt_indent(i) ==
    The({IF a.ok THEN a ELSE tag(<<TAB>>, i) : a \in {tag(<<SP, SP>>, i)}})

posting_indent(i) ==
    The({IF ~t.ok THEN t ELSE space0(t.rest) : t \in {alt_indent(i)}})

posting(i) ==
    The({IF ~ind.ok THEN ind ELSE
    The({IF ~acc.ok THEN acc ELSE
    The({
    The({
    The({
    The({
    The({
    The({
    The({
    The({
    The({Ok(nl.rest,
            [account |-> acc.val,
             amount  |-> am.val,
             assign  |-> as.val,
             cost    |-> co.val,
             comment |-> cm.val])
    : nl \in {opt(char(LF, cm.rest), cm.rest)}})
    : cm \in {opt(comment(s4.rest), s4.rest)}})
    : s4 \in {space0(co.rest)}})
    : co \in {opt(cost(s3.rest), s3.rest)}})
    : s3 \in {space0(as.rest)}})
    : as \in {opt(assign_amount(s2.rest), s2.rest)}})
    : s2 \in {space0(am.rest)}})
    : am \in {opt(amount_unit(s1.rest), s1.rest)}})
    : s1 \in {space0(acc.rest)}})
    : acc \in {account(ind.rest)}})
    : ind \in {posting_indent(i)}})

RECURSIVE many_posting(_, _)
\* the loop of many1(posting) after its first element
many_posting(i, acc) ==
    The({IF ~r.ok THEN Ok(i, acc)
         ELSE IF Len(r.rest) = Len(i) THEN Err("Many1")
         ELSE many_posting(r.rest, Append(acc, r.val))
         : r \in {posting(i)}})

\* many0(posting) in the place of many1(posting): zero postings accepted
many1_posting_allow_zero(i) == many_posting(i, <<>>)

\* many1(posting)
many1_posting(i) ==
    The({IF ~r.ok THEN r ELSE many_posting(r.rest, <<r.val>>)
         : r \in {posting(i)}})

transaction(i) ==
    The({IF ~h.ok THEN h ELSE
    The({IF ~p.ok THEN p ELSE
         Ok(p.rest, [header |-> h.val, posting |-> p.val])
    : p \in {many1_posting(h.rest)}})
    : h \in {transaction_header(i)}})

(***************************************************************************)
(* The item driver.                                                        *)
(***************************************************************************)
\* tuple((space0, opt(line_ending)))
blank_line_parts(i) ==
    The({opt(line_ending(sp.rest), sp.rest) : sp \in {space0(i)}})

\* blank_line without its opt(line_ending): the run of spaces and tabs only
blank_line_spaces_only(i) == recognize(space0(i), i)

blank_line(i) == recognize(blank_line_parts(i), i)

\* the result of unwrap() on r, as the step of next it belongs to
Unwrapped(r, cur, variant) ==
    IF ~r.ok
    THEN [outcome |-> "panic", s |-> cur, item |-> None]
    ELSE [outcome |-> "Some", s |-> r.rest, item |-> Some(variant)]

\* next without its is_empty test
NextStep_no_empty_test(cur) ==
    IF cur # <<>> /\ is_ascii_digit(Head(cur))
    THEN The({Unwrapped(t, cur, "Transaction") : t \in {transaction(cur)}})
    ELSE The({Unwrapped(b, cur, "Blank") : b \in {blank_line(cur)}})

\* LedgerParser::next on the remaining buffer cur: what the call does
\* (None, Some(item), or the panic of unwrap on an Err) and the new cursor
NextStep(cur) ==
    IF cur = <<>>
    THEN [outcome |-> "None", s |-> cur, item |-> None]
    ELSE IF is_ascii_digit(Head(cur))
    THEN The({Unwrapped(t, cur, "Transaction") : t \in {transaction(cur)}})
    ELSE The({Unwrapped(b, cur, "Blank") : b \in {blank_line(cur)}})

NoResult == Err("NotCalled")

(***************************************************************************)
(* Input buffers of the driver: up to MaxPieces pieces, each a blank line, *)
(* stray text, a header line, a posting line or a malformed date.          *)
(***************************************************************************)
HeaderLine == <<"1", "-", "1", "-", "1", SP, "x", LF>>

PostingLine == <<SP, SP, "A", SP, "1", LF>>

Pieces == {<<LF>>, <<SP>>, <<TAB>>, <<CR, LF>>, <<"a">>, <<"1">>,
           HeaderLine, PostingLine}

RECURSIVE Flatten(_)
Flatten(ps) == IF ps = <<>> THEN <<>> ELSE Head(ps) \o Flatten(Tail(ps))

SeqsUpTo(A, n) == UNION {[1..k -> A] : k \in 0..n}

LedgerInputs == {Flatten(ps) : ps \in SeqsUpTo(Pieces, MaxPieces)}

\* LedgerParser::new
Init ==
    /\ input \in LedgerInputs
    /\ s = input
    /\ outcome = "init"
    /\ items = <<>>
    /\ calls = 0
    /\ op = "init"
    /\ ret = NoResult

\* one call of LedgerParser::next; a panic ends the program
next ==
    /\ outcome # "panic"
    /\ calls < MaxCalls
    /\ \E r \in {NextStep(s)} :
           /\ outcome' = r.outcome
           /\ s' = r.s
           /\ items' = items \o r.item
    /\ calls' = calls + 1
    /\ UNCHANGED <<input, op, ret>>

Next == next

Spec == Init /\ [][Next]_vars

(***************************************************************************)
(* The recognizers as pure functions: a specification draws the input from *)
(* a bounded set of texts and applies one recognizer to it.                *)
(***************************************************************************)
InitOn(inputs) ==
    /\ input \in inputs
    /\ s = input
    /\ outcome = "init"
    /\ items = <<>>
    /\ calls = 0
    /\ op = "init"
    /\ ret = NoResult

Apply(name, result) ==
    /\ op = "init"
    /\ op' = name
    /\ ret' = result
    /\ UNCHANGED <<input, s, outcome, items, calls>>

\* transaction inputs: a header line, then up to MaxPostingLines lines
HeaderLines == {HeaderLine,
                <<"1", "/", "2", "/", "3", SP, "*", SP, "x", ";", "c", LF>>}

BodyLines == {<<SP, SP, "A", SP, "1", SP, "J", LF>>,   \* amount with unit
              <<TAB, "B", LF>>,                        \* elided
              <<SP, SP, "C", SP, "=", "0", LF>>,       \* assignment only
              <<"D", LF>>,                             \* not indented
              <<LF>>,                                  \* blank
              <<SP, "E", LF>>,                         \* one space
              <<"1", "-", "1", "-", "1", SP, "y", LF>>,\* next header
              <<SP, SP, "F", SP, "x", LF>>,            \* text after the account
              <<SP, SP, "G">>}                         \* no line terminator

TransactionInputs ==
    {h \o Flatten(ls) : h \in HeaderLines, ls \in SeqsUpTo(BodyLines, MaxPostingLines)}

InitTransaction == InitOn(TransactionInputs)

CallTransaction == Apply("transaction", transaction(input))

NextTransaction == CallTransaction

SpecTransaction == InitTransaction /\ [][NextTransaction]_vars

\* posting inputs, by characters: an indentation (or none), then up to
\* MaxLen characters
Indents == {<<>>, <<SP>>, <<SP, SP>>, <<TAB>>, <<SP, TAB>>, <<SP, SP, SP>>}

PostingChars == {"A", "1", SP, TAB, LF}

\* posting inputs, by fields: indentation, account, then each of amount,
\* assignment, cost and comment present or absent, separated by blanks.
\* Each choice is the field's text with the value the grammar gives it.
Dec(m, e) == [m |-> m, e |-> e]

Amt(m, e, u) == [price |-> Dec(m, e), unit |-> u]

NoField == [text |-> <<>>, val |-> None]

AmountFields ==
    {NoField,
     [text |-> <<"1">>, val |-> Some(Amt(1, 0, <<>>))],
     [text |-> <<"-", "2", ".", "5", SP, "J">>, val |-> Some(Amt(-25, 1, <<"J">>))],
     [text |-> <<"1", ",", "0", "0", "0", SP, "J">>, val |-> Some(Amt(1000, 0, <<"J">>))]}

AssignFields ==
    {NoField,
     [text |-> <<"=", "0">>, val |-> Some(Amt(0, 0, <<>>))],
     [text |-> <<"=", SP, "3", SP, "J">>, val |-> Some(Amt(3, 0, <<"J">>))]}

CostFields ==
    {NoField,
     [text |-> <<"@", SP, "2", SP, "J">>, val |-> Some(Amt(2, 0, <<"J">>))],
     [text |-> <<"@", "2">>, val |-> Some(Amt(2, 0, <<>>))]}

CommentFields ==
    {NoField,
     [text |-> <<";", SP, "c">>, val |-> Some(<<"c">>)],
     [text |-> <<";", "c", SP, "d">>, val |-> Some(<<"c", SP, "d">>)]}

Separators == {<<SP>>, <<TAB, SP>>}

LineEnds == {<<>>, <<LF>>}

AccountText == <<"A", ":", "b">>

\* a field's text with the separator before it, when the field is present
Sep(sep, f) == IF f.val = None THEN <<>> ELSE sep \o f.text

FieldLines ==
    {[text   |-> ind \o AccountText \o Sep(sep, am) \o Sep(sep, as)
                     \o Sep(sep, co) \o Sep(sep, cm) \o end,
      expect |-> [account |-> AccountText, amount |-> am.val,
                  assign |-> as.val, cost |-> co.val, comment |-> cm.val],
      grouped |-> \E k \in 1..Len(am.text) : am.text[k] = ","]
     : ind \in {<<SP, SP>>, <<TAB>>, <<SP, SP, SP, SP>>},
       am \in AmountFields, as \in AssignFields, co \in CostFields,
       cm \in CommentFields, sep \in Separators, end \in LineEnds}

\* posting inputs, by units: amount, assignment and cost each absent, bare,
\* or with one of two units.  Each choice is the field's text with the unit
\* it names (the empty text when it names none).
NoUnitField == [text |-> <<>>, unit |-> <<>>]

UnitAmountFields ==
    {NoUnitField,
     [text |-> <<"1">>, unit |-> <<>>],
     [text |-> <<"1", SP, "J">>, unit |-> <<"J">>],
     [text |-> <<"1", SP, "K">>, unit |-> <<"K">>]}

UnitAssignFields ==
    {NoUnitField,
     [text |-> <<"=", "3">>, unit |-> <<>>],
     [text |-> <<"=", SP, "3", SP, "J">>, unit |-> <<"J">>],
     [text |-> <<"=", "3", SP, "K">>, unit |-> <<"K">>]}

UnitCostFields ==
    {NoUnitField,
     [text |-> <<"@", "2">>, unit |-> <<>>],
     [text |-> <<"@", SP, "2", SP, "J">>, unit |-> <<"J">>],
     [text |-> <<"@", "2", SP, "K">>, unit |-> <<"K">>]}

\* a field's text with the separator before it, when the field is present
SepUnit(sep, f) == IF f.text = <<>> THEN <<>> ELSE sep \o f.text

UnitLines ==
    {[text  |-> ind \o AccountText \o SepUnit(sep, am) \o SepUnit(sep, as)
                    \o SepUnit(sep, co) \o end,
      units |-> {am.unit, as.unit, co.unit} \ {<<>>}]
     : ind \in {<<SP, SP>>, <<TAB>>},
       am \in UnitAmountFields, as \in UnitAssignFields, co \in UnitCostFields,
       sep \in Separators, end \in LineEnds}

PostingInputs ==
    {ind \o Flatten(cs) : ind \in Indents, cs \in SeqsUpTo({<<c>> : c \in PostingChars}, MaxLen)}
        \cup {l.text : l \in FieldLines}
        \cup {l.text : l \in UnitLines}

InitPosting == InitOn(PostingInputs)

CallPosting == Apply("posting", posting(input))

NextPosting == CallPosting

SpecPosting == InitPosting /\ [][NextPosting]_vars

\* decimal inputs: every text of up to MaxDecimalLen characters, and the
\* grouped number with a fraction
DecimalChars == {"+", "-", "1", "0", ",", "."}

GroupedDecimal == <<"1", ",", "0", "0", "0", ".", "5", "0">>

DecimalInputs ==
    {Flatten(cs) : cs \in SeqsUpTo({<<c>> : c \in DecimalChars}, MaxDecimalLen)}
        \cup {GroupedDecimal}

InitDecimal == InitOn(DecimalInputs)

CallDecimal == Apply("decimal", decimal(input))

NextDecimal == CallDecimal

SpecDecimal == InitDecimal /\ [][NextDecimal]_vars

\* date inputs: year, separator, month, separator, day, then a tail
YearTexts == {<<"1">>, <<"4">>, <<"1", "0", "0">>, <<"4", "0", "0">>,
              <<"2", "0", "2", "1">>}

MonthTexts == {<<"0">>, <<"1">>, <<"2">>, <<"0", "2">>, <<"4">>, <<"1", "2">>,
               <<"1", "3">>}

DayTexts == {<<"0">>, <<"1">>, <<"2", "8">>, <<"2", "9">>, <<"3", "0">>,
             <<"3", "1">>, <<"3", "2">>}

DateSeparators == {"/", "-", "."}

DateCases ==
    {[text |-> y \o <<s1>> \o m \o <<s2>> \o d \o tl,
      y |-> y, m |-> m, d |-> d, s1 |-> s1, s2 |-> s2, tail |-> tl]
     : y \in YearTexts, m \in MonthTexts, d \in DayTexts,
       s1 \in DateSeparators, s2 \in DateSeparators, tl \in {<<>>, <<SP, "x">>}}

DateInputs == {c.text : c \in DateCases}

InitDate == InitOn(DateInputs)

CallDate == Apply("date", date(input))

NextDate == CallDate

SpecDate == InitDate /\ [][NextDate]_vars

\* header inputs: a date, then up to MaxTailLen characters
HeaderDate == <<"1", "-", "1", "-", "1">>

HeaderChars == {SP, "(", ")", "x", LF}

HeaderInputs ==
    {HeaderDate \o Flatten(cs) : cs \in SeqsUpTo({<<c>> : c \in HeaderChars}, MaxTailLen)}

InitHeader == InitOn(HeaderInputs)

CallHeader == Apply("transaction_header", transaction_header(input))

NextHeader == CallHeader

SpecHeader == InitHeader /\ [][NextHeader]_vars

(***************************************************************************)
(* Properties of the item driver (specification Spec).                     *)
(***************************************************************************)
IsSuffix(a, b) == Len(a) <= Len(b) /\ a = Drop(b, Len(b) - Len(a))

Min(a, b) == IF a <= b THEN a ELSE b

Blanks(n) == [k \in 1..n |-> "Blank"]

\* a call of next: the step from the buffer s to s'
Called == calls' = calls + 1

\* C1: when next is called with the remaining buffer starting with an ASCII
\* digit and the transaction parser fails on it, the call returns an error
\* outcome to the caller (it does not abort, and does not skip the text).
C1_FailureSurfaced ==
    [][(Called /\ s # <<>> /\ is_ascii_digit(Head(s)) /\ ~transaction(s).ok)
           => (outcome' = "Err" /\ s' = s /\ items' = items)]_vars

\* C2: every call of next from a non-empty remaining buffer that emits an
\* item strictly shortens the remaining buffer, so the item sequence is
\* finite.
C2_EmittingStepShortens ==
    [][(Called /\ s # <<>> /\ outcome' = "Some") => Len(s') < Len(s)]_vars

\* the input is n >= 0 lines of spaces and tabs, each ended by a newline
WhitespaceLines(i) ==
    /\ \A k \in 1..Len(i) : i[k] \in {SP, TAB, LF}
    /\ i # <<>> => i[Len(i)] = LF

NumLF(i) == Cardinality({k \in 1..Len(i) : i[k] = LF})

\* C3: Exhausted is absorbing: once the remaining buffer is empty every call
\* of next returns None and changes nothing; and over n whitespace-only
\* lines, each ended by a newline, the calls yield exactly n Blank items
\* (one per call) and then nothing.
C3_ExhaustedAbsorbing ==
    [][Called =>
         /\ s = <<>> => (outcome' = "None" /\ s' = <<>> /\ items' = items)
         /\ WhitespaceLines(input) =>
                /\ items' = Blanks(Min(calls', NumLF(input)))
                /\ calls' >= NumLF(input) => s' = <<>>]_vars

C3_Witness ==
    /\ WhitespaceLines(input) /\ NumLF(input) = 2
    /\ items = <<"Blank", "Blank">>
    /\ s = <<>> /\ outcome = "None"

RECURSIVE LeadingBlanks(_)
\* number of leading spaces and tabs
LeadingBlanks(i) ==
    IF i # <<>> /\ Head(i) \in {SP, TAB} THEN 1 + LeadingBlanks(Tail(i)) ELSE 0

\* length of at most one line terminator at the head of i
TerminatorLen(i) ==
    IF Len(i) >= 1 /\ i[1] = LF THEN 1
    ELSE IF Len(i) >= 2 /\ i[1] = CR /\ i[2] = LF THEN 2
    ELSE 0

BlankRunLen(i) == LeadingBlanks(i) + TerminatorLen(Drop(i, LeadingBlanks(i)))

\* C4: a successful call of next from a non-empty buffer emits exactly one
\* item; it is Transaction, with the cursor moved past what the transaction
\* parser consumed, when the buffer starts with an ASCII digit, and Blank,
\* with the cursor moved past the leading spaces/tabs and at most one line
\* terminator, otherwise; the new buffer is a suffix of the old one.
C4_OneItemPerStep ==
    [][(Called /\ outcome' = "Some") =>
         /\ s # <<>>
         /\ Len(items') = Len(items) + 1
         /\ SubSeq(items', 1, Len(items)) = items
         /\ IF is_ascii_digit(Head(s))
            THEN /\ items'[Len(items')] = "Transaction"
                 /\ transaction(s).ok
                 /\ s' = transaction(s).rest
                 /\ Len(s') < Len(s)
            ELSE /\ items'[Len(items')] = "Blank"
                 /\ s' = Drop(s, BlankRunLen(s))
         /\ IsSuffix(s', s)]_vars

C4_Witness ==
    /\ outcome = "Some"
    /\ items = <<"Transaction", "Blank">>
    /\ input = HeaderLine \o PostingLine \o <<SP>>
    /\ s = <<>>

(***************************************************************************)
(* Properties of the transaction parser (specification SpecTransaction).   *)
(***************************************************************************)
RECURSIVE LinesOf(_)
\* the lines of a text, without their terminators
LinesOf(t) ==
    IF t = <<>> THEN <<>>
    ELSE IF \E k \in 1..Len(t) : t[k] = LF
    THEN LET k == CHOOSE n \in 1..Len(t) : t[n] = LF /\ \A j \in 1..(n - 1) : t[j] # LF
         IN  <<Take(t, k - 1)>> \o LinesOf(Drop(t, k))
    ELSE <<t>>

\* the text after the first line (the header line of a transaction input)
AfterFirstLine(t) ==
    LET k == CHOOSE n \in 1..Len(t) : t[n] = LF /\ \A j \in 1..(n - 1) : t[j] # LF
    IN  Drop(t, k)

StartsIndented(l) ==
    \/ Len(l) >= 2 /\ l[1] = SP /\ l[2] = SP
    \/ Len(l) >= 1 /\ l[1] = TAB

RECURSIVE FirstWord(_)
\* the first run of non-blank characters of a line
FirstWord(l) ==
    IF l = <<>> \/ Head(l) \in {SP, TAB} THEN <<>>
    ELSE <<Head(l)>> \o FirstWord(Tail(l))

AccountOf(l) == FirstWord(Drop(l, LeadingBlanks(l)))

\* the shape of a posting line: indentation, then an account
IsPostingLine(l) == StartsIndented(l) /\ AccountOf(l) # <<>>

\* a posting line that is its account alone
IsElidedLine(l) ==
    /\ IsPostingLine(l)
    /\ \A k \in (LeadingBlanks(l) + Len(AccountOf(l)) + 1)..Len(l) : l[k] \in {SP, TAB}

\* a line the posting parser matches from its first to its last character
MatchesPosting(l) == posting(l).ok /\ posting(l).rest = <<>>

\* C5: a Transaction has at least one posting, and its i-th posting is the
\* i-th line after the header (a line that is an account alone giving a
\* posting with no amount), up to the first line the posting parser does
\* not match; a header followed by no posting line makes the transaction
\* parser fail.
C5_PostingsInFileOrder ==
    op = "transaction" =>
        LET lines == LinesOf(AfterFirstLine(input))
            ps    == ret.val.posting
        IN  /\ ret.ok <=> (lines # <<>> /\ IsPostingLine(lines[1]))
            /\ ret.ok =>
                 /\ Len(ps) >= 1
                 /\ Len(ps) <= Len(lines)
                 /\ \A k \in 1..Len(ps) :
                        /\ IsPostingLine(lines[k])
                        /\ ps[k].account = AccountOf(lines[k])
                        /\ ps[k] = posting(lines[k]).val
                        /\ IsElidedLine(lines[k]) =>
                               (ps[k].amount = None /\ ps[k].assign = None
                                    /\ ps[k].cost = None)
                 /\ \A k \in 1..Len(lines) :
                        (\A j \in 1..k : MatchesPosting(lines[j])) => Len(ps) >= k
                 /\ (Len(ps) < Len(lines)
                        /\ \A j \in 1..Len(ps) : MatchesPosting(lines[j]))
                        => ~posting(lines[Len(ps) + 1]).ok

C5_Witness ==
    /\ op = "transaction" /\ ret.ok
    /\ Len(ret.val.posting) = 3
    /\ ret.val.posting[1].account = <<"A">> /\ ret.val.posting[1].amount # None
    /\ ret.val.posting[2].account = <<"C">>
    /\ ret.val.posting[3].account = <<"B">> /\ ret.val.posting[3].amount = None

(***************************************************************************)
(* Properties of the posting parser (specification SpecPosting).           *)
(***************************************************************************)
\* C6: the posting parser matches only a line that starts with two or more
\* spaces or with a tab: a line with no leading whitespace, or with exactly
\* one leading space, is rejected whatever follows.
C6_PostingNeedsIndent ==
    (op = "posting" /\ ret.ok) => StartsIndented(input)

\* a line with exactly one leading space, then an account: rejected
C6_Witness ==
    /\ op = "posting" /\ ~ret.ok
    /\ Len(input) >= 2 /\ input[1] = SP /\ input[2] = "A"

\* C7: for every subset of {amount, assignment, cost, comment}, an indented
\* line of an account followed by exactly those fields in that order,
\* separated by blanks, is accepted, the Posting has exactly those fields
\* (with their values) and the others None, and the whole line is consumed.
C7_FieldsIndependentlyOptional ==
    op = "posting" =>
        \A l \in FieldLines :
            l.text = input =>
                (ret.ok /\ ret.rest = <<>> /\ ret.val = l.expect)

\* The part of the statement above that the grammar does satisfy: it holds of
\* every line whose amount has no grouping comma.
PostingFieldsWithoutGrouping ==
    op = "posting" =>
        \A l \in FieldLines :
            (l.text = input /\ ~l.grouped) =>
                (ret.ok /\ ret.rest = <<>> /\ ret.val = l.expect)

\* the non-empty units of the amount, assignment and cost of a Posting
UnitsOf(p) ==
    {f[1].unit : f \in {g \in {p.amount, p.assign, p.cost} : g # None}} \ {<<>>}

\* What the grammar does with these lines: each is accepted whole, and the
\* Posting carries the units as they were written.
UnitLinesAccepted ==
    op = "posting" =>
        \A l \in UnitLines :
            l.text = input =>
                (ret.ok /\ ret.rest = <<>> /\ UnitsOf(ret.val) = l.units)

\* C11: a posting whose amount, assignment and cost name two different
\* non-empty units is rejected with DupUnit, and no Posting is produced for
\* it.
C11_DupUnitRejected ==
    op = "posting" =>
        \A l \in UnitLines :
            (l.text = input /\ Cardinality(l.units) > 1) =>
                (~ret.ok /\ ret.err = "DupUnit")

(***************************************************************************)
(* Properties of the decimal recognizer (specification SpecDecimal).       *)
(***************************************************************************)
IsDigits(w) == w # <<>> /\ \A k \in 1..Len(w) : is_ascii_digit(w[k])

\* \d+(,\d+)*
IsGroupedDigits(w) ==
    /\ w # <<>>
    /\ \A k \in 1..Len(w) : is_ascii_digit(w[k]) \/ w[k] = ","
    /\ w[1] # "," /\ w[Len(w)] # ","
    /\ \A k \in 1..(Len(w) - 1) : ~(w[k] = "," /\ w[k + 1] = ",")

\* \d+(,\d+)*(\.\d+)?
IsUnsignedDecimal(w) ==
    \/ IsGroupedDigits(w)
    \/ \E k \in 1..Len(w) :
           w[k] = "." /\ IsGroupedDigits(Take(w, k - 1)) /\ IsDigits(Drop(w, k))

\* [+-]?\d+(,\d+)*(\.\d+)?
IsDecimal(w) ==
    \/ IsUnsignedDecimal(w)
    \/ w # <<>> /\ w[1] \in {"+", "-"} /\ IsUnsignedDecimal(Tail(w))

DecimalPrefixes(i) == {k \in 1..Len(i) : IsDecimal(Take(i, k))}

\* C8: the decimal recognizer matches exactly the longest prefix of its
\* input that fits [+-]?\d+(,\d+)*(\.\d+)? and leaves the rest; it fails
\* when no prefix fits.
C8_LongestDecimalPrefix ==
    op = "decimal" =>
        LET ks == DecimalPrefixes(input)
        IN  IF ks = {} THEN ~ret.ok
            ELSE LET n == CHOOSE k \in ks : \A j \in ks : j <= k
                 IN  ret.ok /\ ret.val = Take(input, n) /\ ret.rest = Drop(input, n)

(***************************************************************************)
(* Properties of the date recognizer (specification SpecDate).             *)
(***************************************************************************)
\* the days of each month of a Gregorian year
GregorianDays(y) ==
    <<31, IF (y % 4 = 0 /\ y % 100 # 0) \/ y % 400 = 0 THEN 29 ELSE 28,
      31, 30, 31, 30, 31, 31, 30, 31, 30, 31>>

IsRealDate(y, m, d) == m \in 1..12 /\ d \in 1..GregorianDays(y)[m]

\* C9: the date recognizer succeeds only on a real Gregorian date whose two
\* separators are both '/' or both '-'; it fails with DateFormat when
\* neither separator pattern matches, and with DateOutOfRange when the
\* pattern matches but the calendar date is invalid.
C9_DateErrorKinds ==
    op = "date" =>
        \A c \in DateCases :
            c.text = input =>
                LET pattern == c.s1 = c.s2 /\ c.s1 \in {"/", "-"}
                    real    == IsRealDate(ParseInt(c.y), ParseInt(c.m), ParseInt(c.d))
                IN  /\ ret.ok <=> (pattern /\ real)
                    /\ ~pattern => ret.err = "DateFormat"
                    /\ (pattern /\ ~real) => ret.err = "DateOutOfRange"

(***************************************************************************)
(* Properties of the header parser (specification SpecHeader).             *)
(***************************************************************************)
\* the first line of a text, without its terminator
FirstLine(t) == IF t = <<>> THEN <<>> ELSE LinesOf(t)[1]

\* after the date: blanks, then an opening parenthesis that has no closing
\* parenthesis on the same line
UnclosedCodeLine(tl) ==
    LET l == FirstLine(tl)
        k == LeadingBlanks(l)
    IN  /\ k >= 1 /\ Len(l) > k /\ l[k + 1] = "("
        /\ \A j \in (k + 2)..Len(l) : l[j] # ")"

\* C10: a parsed code never contains a line terminator, and a header line
\* with an opening parenthesis in code position and no closing parenthesis
\* before the end of that line makes the header parser fail with
\* UnclosedCode.
C10_CodeClosedOnItsLine ==
    op = "transaction_header" =>
        /\ (ret.ok /\ ret.val.code # None) =>
               \A k \in 1..Len(ret.val.code[1]) : ret.val.code[1][k] # LF
        /\ UnclosedCodeLine(Drop(input, Len(HeaderDate))) =>
               (~ret.ok /\ ret.err = "UnclosedCode")

====
